---- MODULE Spec2Model ----
(***************************************************************************)
(* Model of the chat relay of YiQi_backend_node: the express route chain   *)
(* authMiddleware -> sessionAuthMiddleware -> rateLimitMiddleware -> route *)
(* handler, ChatService.sendMessage / streamMessage, SessionService and    *)
(* the sliding-window rate limiter.                                        *)
(*                                                                         *)
(* Node runs one callback at a time: a request that is inside synchronous  *)
(* code keeps the thread until it reaches an await or ends.  The position  *)
(* of every request is req[r].pc; the positions in SyncPcs are the ones    *)
(* inside synchronous code.  Only the clock moves while a request is       *)
(* there.                                                                  *)
(*                                                                         *)
(* Time is counted in abstract ticks; the window, the cap, the expiration  *)
(* and the length limits are scaled down to a few ticks / characters.      *)
(***************************************************************************)
EXTENDS Integers, Sequences, FiniteSets, TLC

VARIABLES now, rateLimitMap, sessions, req, completed, epoch, server, registry

vars == <<now, rateLimitMap, sessions, req, completed, epoch, server, registry>>

\* ---------------------------------------------------------------- bounds
MaxReq == 2
MaxTime == 3
MaxDeltas == 2
StreamReqs == 1
\* scaled: 60 * 1000 ms in rateLimitMiddleware.ts:20
RATE_LIMIT_WINDOW_MS == 2
\* scaled: DEFAULT_RATE_LIMIT_PER_MINUTE = 10 in rateLimitMiddleware.ts:21
RATE_LIMIT_MAX_REQUESTS == 1
\* scaled: rateLimits.requestsPerMinute of a loaded configuration that asks for
\* another cap than the default
requestsPerMinute == 2
\* scaled: expirationHours * 60 * 60 * 1000 in cleanExpiredSessions
expirationMs == 1
\* scaled: rateLimits.maxMessageLength, rateLimits.maxSystemPromptLength
maxMessageLength == 2
maxSystemPromptLength == 2

\* ---------------------------------------------------------------- inputs
Users == {"A", "B"}
NoToken == "missing"
BadToken == "bad"
Tokens == Users \cup {NoToken, BadToken}
NoUser == "-"
NoSid == ""
SessionIds == {"s1", "s2"}
Rids == 1..MaxReq
SupportedModel == "deepseek-chat"
UnknownModel == "no-such-model"
\* a string is the sequence of its characters
Deltas == {<<"H", "e">>, <<"l", "l", "o">>}
Responses == {"ok", "transport", "status", "malformed"}
StreamFailures == {"transport", "status", "nobody"}

\* temperature is carried in tenths: 10 stands for 1.0
GoodCfg == [model |-> SupportedModel, temperature |-> 5, promptLen |-> 0]
PromptCfg == [model |-> SupportedModel, temperature |-> 10, promptLen |-> 1]
HotCfg == [model |-> SupportedModel, temperature |-> 15, promptLen |-> 0]
BadCfgs ==
    { [model |-> UnknownModel, temperature |-> 5, promptLen |-> 0],
      HotCfg,
      [model |-> SupportedModel, temperature |-> 0 - 1, promptLen |-> 0],
      [model |-> SupportedModel, temperature |-> 0,
       promptLen |-> maxSystemPromptLength + 1] }

\* ---------------------------------------------------------------- helpers
\* the recorded timestamps of an identity: rateLimitMap.get(userId) || []
Timestamps(m, u) == IF u \in DOMAIN m THEN m[u] ELSE <<>>

RecentInclusive(ts, t) == SelectSeq(ts, LAMBDA x : x >= t - RATE_LIMIT_WINDOW_MS)

\* timestamps.filter(t => t > windowStart)
Recent(ts, t) == SelectSeq(ts, LAMBDA x : x > t - RATE_LIMIT_WINDOW_MS)

\* Map.set
MapSet(m, k, v) == [x \in DOMAIN m \cup {k} |-> IF x = k THEN v ELSE m[x]]

\* Map.delete
MapDelete(m, ks) == [x \in DOMAIN m \ ks |-> m[x]]

NewReq ==
    [pc |-> "new", token |-> NoToken, userId |-> NoUser, kind |-> "-",
     bodySid |-> NoSid, querySid |-> NoSid, cfg |-> GoodCfg, msgLen |-> 0,
     missing |-> "",
     status |-> 0, code |-> "-", msg |-> "-",
     rlAt |-> 0 - 1, rlSeen |-> 0 - 1, rlLen |-> 0 - 1, admittedAt |-> 0 - 1,
     foreign |-> FALSE, routed |-> FALSE, created |-> FALSE, called |-> FALSE,
     upstream |-> "-", ctx |-> <<>>, userTs |-> 0 - 1,
     sse |-> FALSE, closed |-> FALSE, full |-> <<>>, n |-> 0, out |-> <<>>,
     calls |-> <<>>, ended |-> FALSE, ep |-> 0]

\* the positions inside synchronous code of the middleware chain
SyncPcsAwaitInLimiter == {"sessionAuth", "rateLimit", "route"}
SyncPcs == {"sessionAuth", "rateLimit", "rateRecord", "route"}

\* no request holds the thread: the event loop may run another callback
Idle == \A r \in Rids : req[r].pc \notin SyncPcs

\* res.status(s).json({error: {code, message}}) and return
Reject(r, s, c, m) ==
    [req EXCEPT ![r].pc = "done", ![r].status = s, ![r].code = c, ![r].msg = m]

\* ---------------------------------------------------------------- configuration
\* a field that is absent from the configuration file
Undefined == 0 - 1

\* a > b of JavaScript with b possibly undefined (then false)
Exceeds(a, b) == b # Undefined /\ a > b

ModelNames == {SupportedModel, "model-1", UnknownModel}

\* providerName.toLowerCase()
Lower(name) == IF name = "DeepSeek" THEN "deepseek" ELSE name

\* the provider names initializeProviders has a class for
KnownProviders == {"deepseek", "kimi", "qwen", "openrouter"}

\* one entry of config.providers; baseURL tells whether the field is there
ProviderEntry(name, baseURL, models) ==
    [name |-> name, baseURL |-> baseURL, models |-> models]

CompleteRateLimits ==
    [present |-> TRUE, requestsPerMinute |-> requestsPerMinute,
     maxMessageLength |-> maxMessageLength,
     maxSystemPromptLength |-> maxSystemPromptLength]
IncompleteRateLimits ==
    [present |-> TRUE, requestsPerMinute |-> requestsPerMinute,
     maxMessageLength |-> Undefined, maxSystemPromptLength |-> Undefined]
MissingRateLimits ==
    [present |-> FALSE, requestsPerMinute |-> Undefined,
     maxMessageLength |-> Undefined, maxSystemPromptLength |-> Undefined]

CompleteSession == [present |-> TRUE, expirationHours |-> expirationMs]
IncompleteSession == [present |-> TRUE, expirationHours |-> Undefined]
MissingSession == [present |-> FALSE, expirationHours |-> Undefined]

\* the parsed content of config/ai-providers.json
Config(ps, rl, se) == [providers |-> ps, rateLimits |-> rl, session |-> se]

\* the configuration the other specifications run with
DefaultConfig ==
    Config(<<ProviderEntry("deepseek", TRUE, {SupportedModel})>>,
           CompleteRateLimits, CompleteSession)

\* ConfigService.validateConfig: the text of the error it throws, "" if none
RECURSIVE validateProviders(_)
validateProviders(ps) ==
    IF ps = <<>> THEN ""
    ELSE IF ~Head(ps).baseURL THEN "Provider is missing baseURL"
    ELSE IF Head(ps).models = {} THEN "Provider has no models configured"
    ELSE validateProviders(Tail(ps))

validateConfig(c) ==
    IF c.providers = <<>> THEN "No providers configured"
    ELSE IF validateProviders(c.providers) # "" THEN validateProviders(c.providers)
    ELSE IF ~c.rateLimits.present THEN "Rate limits configuration is missing"
    ELSE IF ~c.session.present THEN "Session configuration is missing"
    ELSE ""

\* the two maps of AIProviderService before initializeProviders
EmptyRegistry == [providers |-> <<>>, modelToProvider |-> <<>>]

\* for (const model of models) modelToProvider.set(model, providerName)
SetModels(mp, models, name) ==
    [m \in DOMAIN mp \cup models |-> IF m \in models THEN name ELSE mp[m]]

\* AIProviderService.initializeProviders over the entries in their order
RECURSIVE initializeFrom(_, _)
initializeFrom(ps, reg) ==
    IF ps = <<>> THEN reg
    ELSE IF Lower(Head(ps).name) \notin KnownProviders
    THEN initializeFrom(Tail(ps), reg)
    ELSE initializeFrom(Tail(ps),
            [providers |-> MapSet(reg.providers, Head(ps).name, Lower(Head(ps).name)),
             modelToProvider |->
                SetModels(reg.modelToProvider, Head(ps).models, Head(ps).name)])

initializeProviders(c) == initializeFrom(c.providers, EmptyRegistry)

registerProviderModelsOnly(reg, name, models) ==
    [providers |-> reg.providers,
     modelToProvider |-> SetModels(reg.modelToProvider, models, name)]

\* AIProviderService.registerProvider: the new value of the two maps
registerProvider(reg, name, models) ==
    [providers |-> MapSet(reg.providers, name, "custom"),
     modelToProvider |-> SetModels(reg.modelToProvider, models, name)]

\* AIProviderService.getProvider: the provider, or the code of the error
getProvider(m) ==
    IF m \notin DOMAIN registry.modelToProvider THEN "INVALID_MODEL"
    ELSE IF registry.modelToProvider[m] \notin DOMAIN registry.providers
    THEN "CONFIG_MISSING"
    ELSE registry.providers[registry.modelToProvider[m]]

\* AIProviderService.getSupportedModels
getSupportedModels == DOMAIN registry.modelToProvider

\* ConfigService.getRateLimits
getRateLimits == server.config.rateLimits

\* the guard of getFullConfig (getRateLimits, getSessionConfig and
\* getSupportedModels hold the same one): if (!this.config) throw CONFIG_MISSING
getFullConfigThrows == ~server.loaded

Init ==
    /\ now = 0
    /\ rateLimitMap = <<>>
    /\ sessions = <<>>
    /\ req = [r \in Rids |-> NewReq]
    /\ completed = <<>>
    /\ epoch = [s \in SessionIds |-> 0]
    /\ server = [state |-> "running", config |-> DefaultConfig, error |-> "",
                 loaded |-> TRUE]
    /\ registry = initializeProviders(DefaultConfig)

\* ---------------------------------------------------------------- clock
Tick ==
    /\ now < MaxTime
    /\ now' = now + 1
    /\ UNCHANGED <<rateLimitMap, sessions, req, completed, epoch, server, registry>>

\* ---------------------------------------------------------------- auth
\* verifyToken: the identity a token stands for, or null
verifyToken(t) == IF t \in Users THEN t ELSE NoUser

\* authMiddleware, run on a newly dispatched request with the inputs i
AuthMiddleware(r, i) ==
    /\ server.state = "running"
    /\ Idle
    /\ req[r].pc = "new"
    /\ \A p \in Rids : p < r => req[p].pc # "new"
    /\ LET q == [req[r] EXCEPT !.token = i.token, !.kind = i.kind,
                               !.bodySid = i.bodySid, !.querySid = i.querySid,
                               !.cfg = i.cfg, !.msgLen = i.msgLen,
                               !.missing = i.missing]
       IN  req' =
             IF i.token = NoToken
             THEN [req EXCEPT ![r] = [q EXCEPT !.pc = "done", !.status = 401,
                             !.code = "INVALID_TOKEN",
                             !.msg = "Missing authentication token"]]
             ELSE IF verifyToken(i.token) = NoUser
             THEN [req EXCEPT ![r] = [q EXCEPT !.pc = "done", !.status = 401,
                             !.code = "TOKEN_EXPIRED",
                             !.msg = "Invalid or expired token"]]
             ELSE [req EXCEPT ![r] = [q EXCEPT !.pc = "sessionAuth",
                             !.userId = verifyToken(i.token)]]
    /\ UNCHANGED <<now, rateLimitMap, sessions, completed, epoch, server, registry>>

\* req.body?.sessionId || req.query?.sessionId
CheckedSessionId(q) == IF q.bodySid # NoSid THEN q.bodySid ELSE q.querySid

\* the sessionId the route handler uses: req.body for /send, req.query for /stream
HandlerSessionId(q) == IF q.kind = "send" THEN q.bodySid ELSE q.querySid

\* the conversation the handler will use exists and belongs to somebody else
Foreign(q) ==
    /\ HandlerSessionId(q) \in DOMAIN sessions
    /\ sessions[HandlerSessionId(q)].userId # q.userId

SessionAuthMiddlewareCharges(r) ==
    /\ req[r].pc = "sessionAuth"
    /\ LET sessionId == CheckedSessionId(req[r])
           q == [req[r] EXCEPT !.foreign = Foreign(req[r])]
           forbidden == /\ sessionId # NoSid
                        /\ sessionId \in DOMAIN sessions
                        /\ sessions[sessionId].userId # q.userId
       IN  /\ req' =
                IF forbidden
                THEN [req EXCEPT ![r] = [q EXCEPT !.pc = "done", !.status = 403,
                         !.code = "FORBIDDEN_SESSION",
                         !.msg = "Access denied: session belongs to another user"]]
                ELSE [req EXCEPT ![r] = [q EXCEPT !.pc = "rateLimit"]]
           /\ rateLimitMap' =
                IF forbidden
                THEN MapSet(rateLimitMap, q.userId,
                            Append(Timestamps(rateLimitMap, q.userId), now))
                ELSE rateLimitMap
    /\ UNCHANGED <<now, sessions, completed, epoch, server, registry>>

SessionAuthMiddlewareSkipsLimiter(r) ==
    /\ req[r].pc = "sessionAuth"
    /\ LET sessionId == CheckedSessionId(req[r])
           q == [req[r] EXCEPT !.foreign = Foreign(req[r])]
       IN  req' =
             IF sessionId = NoSid
             THEN [req EXCEPT ![r] = [q EXCEPT !.pc = "route"]]
             ELSE IF sessionId \in DOMAIN sessions
                     /\ sessions[sessionId].userId # q.userId
             THEN [req EXCEPT ![r] = [q EXCEPT !.pc = "done", !.status = 403,
                         !.code = "FORBIDDEN_SESSION",
                         !.msg = "Access denied: session belongs to another user"]]
             ELSE [req EXCEPT ![r] = [q EXCEPT !.pc = "route"]]
    /\ UNCHANGED <<now, rateLimitMap, sessions, completed, epoch, server, registry>>

\* sessionAuthMiddleware (userId is set: authMiddleware ran first)
SessionAuthMiddleware(r) ==
    /\ req[r].pc = "sessionAuth"
    /\ LET sessionId == CheckedSessionId(req[r])
           q == [req[r] EXCEPT !.foreign = Foreign(req[r])]
       IN  req' =
             IF sessionId = NoSid
             THEN [req EXCEPT ![r] = [q EXCEPT !.pc = "rateLimit"]]
             ELSE IF sessionId \in DOMAIN sessions
                     /\ sessions[sessionId].userId # q.userId
             THEN [req EXCEPT ![r] = [q EXCEPT !.pc = "done", !.status = 403,
                         !.code = "FORBIDDEN_SESSION",
                         !.msg = "Access denied: session belongs to another user"]]
             ELSE [req EXCEPT ![r] = [q EXCEPT !.pc = "rateLimit"]]
    /\ UNCHANGED <<now, rateLimitMap, sessions, completed, epoch, server, registry>>

\* ---------------------------------------------------------------- limiter
isRateLimitExceededGlobal(u) ==
    Len(Recent(Timestamps(rateLimitMap, "A"), now))
       + Len(Recent(Timestamps(rateLimitMap, "B"), now)) >= RATE_LIMIT_MAX_REQUESTS

isRateLimitExceededOffByOne(u) ==
    Len(Recent(Timestamps(rateLimitMap, u), now)) > RATE_LIMIT_MAX_REQUESTS

\* isRateLimitExceeded
isRateLimitExceeded(u) ==
    Len(Recent(Timestamps(rateLimitMap, u), now)) >= RATE_LIMIT_MAX_REQUESTS

recordRequestUnfiltered(u) ==
    MapSet(rateLimitMap, u, Append(Timestamps(rateLimitMap, u), now))

\* recordRequest: the new value of rateLimitMap
recordRequest(u) ==
    MapSet(rateLimitMap, u, Append(Recent(Timestamps(rateLimitMap, u), now), now))

RateLimitCheckRecordsRejected(r) ==
    /\ req[r].pc = "rateLimit"
    /\ req' =
         IF isRateLimitExceeded(req[r].userId)
         THEN [Reject(r, 429, "RATE_LIMIT_EXCEEDED", "Rate limit exceeded")
                 EXCEPT ![r].rlAt = now]
         ELSE [req EXCEPT ![r].pc = "rateRecord", ![r].rlAt = now,
                 ![r].rlSeen = Len(Recent(Timestamps(rateLimitMap, req[r].userId), now))]
    /\ rateLimitMap' =
         IF isRateLimitExceeded(req[r].userId) THEN recordRequest(req[r].userId)
         ELSE rateLimitMap
    /\ UNCHANGED <<now, sessions, completed, epoch, server, registry>>

\* rateLimitMiddleware up to the limit check
RateLimitCheck(r) ==
    /\ req[r].pc = "rateLimit"
    /\ req' =
         IF isRateLimitExceeded(req[r].userId)
         THEN [Reject(r, 429, "RATE_LIMIT_EXCEEDED", "Rate limit exceeded")
                 EXCEPT ![r].rlAt = now]
         ELSE [req EXCEPT ![r].pc = "rateRecord", ![r].rlAt = now,
                 ![r].rlSeen = Len(Recent(Timestamps(rateLimitMap, req[r].userId), now))]
    /\ UNCHANGED <<now, rateLimitMap, sessions, completed, epoch, server, registry>>

RateLimitRecordValidOnly(r) ==
    /\ req[r].pc = "rateRecord"
    /\ rateLimitMap' = IF req[r].cfg.temperature > 10 THEN rateLimitMap
                       ELSE recordRequest(req[r].userId)
    /\ req' = [req EXCEPT ![r].pc = "route", ![r].admittedAt = now,
                 ![r].rlLen = Len(Timestamps(rateLimitMap', req[r].userId))]
    /\ UNCHANGED <<now, sessions, completed, epoch, server, registry>>

\* rateLimitMiddleware from recordRequest to next()
RateLimitRecord(r) ==
    /\ req[r].pc = "rateRecord"
    /\ rateLimitMap' = recordRequest(req[r].userId)
    /\ req' = [req EXCEPT ![r].pc = "route", ![r].admittedAt = now,
                 ![r].rlLen = Len(rateLimitMap'[req[r].userId])]
    /\ UNCHANGED <<now, sessions, completed, epoch, server, registry>>

\* the timer handle of the limiter's sweep: set only by startRateLimitCleanup,
\* which the server never calls, so it keeps its initial value
cleanupInterval == "null"

\* cleanupOldTimestamps: the new value of rateLimitMap
cleanupOldTimestamps ==
    [u \in {v \in DOMAIN rateLimitMap : Recent(rateLimitMap[v], now) # <<>>} |->
        Recent(rateLimitMap[u], now)]

\* the callback of the limiter's interval timer; it runs only while the timer
\* is set, which is never the case in the server (it is in no specification)
RateLimitCleanup ==
    /\ Idle
    /\ cleanupInterval # "null"
    /\ rateLimitMap' = cleanupOldTimestamps
    /\ UNCHANGED <<now, sessions, req, completed, epoch, server, registry>>

\* the callback of the limiter's interval timer for a user of the module who
\* has called startRateLimitCleanup (the tests of the module do)
StartedRateLimitCleanup ==
    /\ Idle
    /\ rateLimitMap' = cleanupOldTimestamps
    /\ UNCHANGED <<now, sessions, req, completed, epoch, server, registry>>

createSessionUnowned(ss, sessionId, userId) ==
    MapSet(ss, sessionId,
           [userId |-> NoUser, messages |-> <<>>, createdAt |-> now,
            updatedAt |-> now])

\* ---------------------------------------------------------------- sessions
\* SessionService.createSession: the new value of the store
createSession(ss, sessionId, userId) ==
    MapSet(ss, sessionId,
           [userId |-> userId, messages |-> <<>>, createdAt |-> now,
            updatedAt |-> now])

addMessageOverwrite(ss, sessionId, message) ==
    [ss EXCEPT ![sessionId].messages = <<message>>,
               ![sessionId].updatedAt = now]

addMessageUnshift(ss, sessionId, message) ==
    [ss EXCEPT ![sessionId].messages = <<message>> \o @,
               ![sessionId].updatedAt = now]

addMessageThrowsNever(ss, sessionId) == FALSE

\* SessionService.addMessage: if (!session) throw AppError(DATABASE_ERROR)
addMessageThrows(ss, sessionId) == sessionId \notin DOMAIN ss

\* SessionService.addMessage on a session that exists: push and touch updatedAt
addMessage(ss, sessionId, message) ==
    [ss EXCEPT ![sessionId].messages = Append(@, message),
               ![sessionId].updatedAt = now]

ExpiredAtBoundary ==
    {s \in DOMAIN sessions : now - sessions[s].updatedAt >= expirationMs}

ExpiredUnitSlip ==
    {s \in DOMAIN sessions : now - sessions[s].updatedAt > expirationMs * 1000}

\* SessionService.cleanExpiredSessions, fired by the hourly timer of server.ts
Expired == {s \in DOMAIN sessions : now - sessions[s].updatedAt > expirationMs}

CleanExpiredSessions ==
    /\ server.state = "running"
    /\ Idle
    /\ sessions' = MapDelete(sessions, Expired)
    /\ epoch' = [s \in SessionIds |-> IF s \in Expired THEN epoch[s] + 1 ELSE epoch[s]]
    /\ UNCHANGED <<now, rateLimitMap, req, completed, server, registry>>

\* SessionService.deleteSession on a stored conversation
DeleteSession(s) ==
    /\ server.state = "running"
    /\ Idle
    /\ s \in DOMAIN sessions
    /\ sessions' = MapDelete(sessions, {s})
    /\ epoch' = [epoch EXCEPT ![s] = @ + 1]
    /\ UNCHANGED <<now, rateLimitMap, req, completed, server, registry>>

\* ---------------------------------------------------------------- service
\* AIProviderService.isModelSupported
isModelSupported(m) == m \in DOMAIN registry.modelToProvider

validateAgentConfigNoUpperBound(c) ==
    IF ~isModelSupported(c.model) THEN "INVALID_MODEL"
    ELSE IF c.temperature < 0 THEN "INVALID_TEMPERATURE"
    ELSE IF Exceeds(c.promptLen, getRateLimits.maxSystemPromptLength)
    THEN "SYSTEM_PROMPT_TOO_LONG"
    ELSE "valid"

\* ChatService.validateAgentConfig: "valid" or the error code
validateAgentConfig(c) ==
    IF ~isModelSupported(c.model) THEN "INVALID_MODEL"
    ELSE IF c.temperature < 0 \/ c.temperature > 10 THEN "INVALID_TEMPERATURE"
    ELSE IF Exceeds(c.promptLen, getRateLimits.maxSystemPromptLength)
    THEN "SYSTEM_PROMPT_TOO_LONG"
    ELSE "valid"

\* the checks at the head of sendMessage and streamMessage
Validation(q) ==
    IF validateAgentConfig(q.cfg) # "valid" THEN validateAgentConfig(q.cfg)
    ELSE IF Exceeds(q.msgLen, getRateLimits.maxMessageLength) THEN "MESSAGE_TOO_LONG"
    ELSE "valid"

\* the required-parameter checks of the route handlers, in their order
RouteParamError(q) ==
    IF q.missing = "agentId" THEN "MISSING_PARAMETER"
    ELSE IF HandlerSessionId(q) = NoSid THEN "MISSING_PARAMETER"
    ELSE IF q.msgLen = 0 THEN "MISSING_PARAMETER"
    ELSE IF q.missing = "agentConfig" THEN "MISSING_PARAMETER"
    ELSE IF q.missing = "structure" THEN "INVALID_CONFIG"
    ELSE "ok"

\* the user turn of exchange r (rid tags the exchange the text belongs to)
UserMessage(r) ==
    [role |-> "user", rid |-> r, content |-> <<"m">>, timestamp |-> now]

BuildMessagesPromptLast(r, c, history) ==
    history \o <<UserMessage(r)>> \o
    (IF c.promptLen > 0
     THEN <<[role |-> "system", rid |-> r, content |-> <<"p">>, timestamp |-> now]>>
     ELSE <<>>)

\* the array sent upstream: system prompt, history, current user message
BuildMessages(r, c, history) ==
    (IF c.promptLen > 0
     THEN <<[role |-> "system", rid |-> r, content |-> <<"p">>, timestamp |-> now]>>
     ELSE <<>>) \o history \o <<UserMessage(r)>>

GetOrCreateAlways(sessionId, userId) ==
    createSession(sessions, sessionId, userId)

\* getSession(sessionId) || createSession(sessionId, userId)
GetOrCreate(sessionId, userId) ==
    IF sessionId \in DOMAIN sessions THEN sessions
    ELSE createSession(sessions, sessionId, userId)

StoredUserMessageAsSystem(r) ==
    [role |-> IF req[r].cfg.promptLen > 0 THEN "system" ELSE "user", rid |-> r,
     content |-> <<"m">>, timestamp |-> req[r].userTs]

\* the user turn as it was built before the await
StoredUserMessage(r) ==
    [role |-> "user", rid |-> r, content |-> <<"m">>, timestamp |-> req[r].userTs]

\* router.post('/send') with sendMessage up to await provider.chat
RouteSend(r) ==
    /\ req[r].pc = "route"
    /\ req[r].kind = "send"
    /\ LET q == [req[r] EXCEPT !.routed = TRUE]
           sid == HandlerSessionId(q)
       IN  IF RouteParamError(q) # "ok"
           THEN /\ req' = [req EXCEPT ![r] = [q EXCEPT !.pc = "done", !.status = 400,
                               !.code = RouteParamError(q), !.msg = "parameter"]]
                /\ UNCHANGED sessions
           ELSE IF Validation(q) # "valid"
           THEN /\ req' = [req EXCEPT ![r] = [q EXCEPT !.pc = "done", !.status = 400,
                               !.code = Validation(q), !.msg = "validation"]]
                /\ UNCHANGED sessions
           ELSE /\ sessions' = GetOrCreate(sid, q.userId)
                /\ req' = [req EXCEPT ![r] = [q EXCEPT !.pc = "awaiting",
                               !.created = sid \notin DOMAIN sessions,
                               !.called = TRUE, !.userTs = now,
                               !.ep = epoch[sid],
                               !.ctx = BuildMessages(r, q.cfg, sessions'[sid].messages)]]
    /\ UNCHANGED <<now, rateLimitMap, completed, epoch, server, registry>>

chatErrorNoShapeCheck(resp) ==
    CASE resp = "ok" -> ""
      [] resp = "transport" -> "Failed to call API"
      [] resp = "status" -> "API error: status - upstream body"
      [] resp = "malformed" -> ""

\* OpenAICompatibleProvider.chat: the text of the AppError it throws, "" if none
chatError(resp) ==
    CASE resp = "ok" -> ""
      [] resp = "transport" -> "Failed to call API"
      [] resp = "status" -> "API error: status - upstream body"
      [] resp = "malformed" -> "Invalid response from API"

\* sendMessage from the return of provider.chat to the response of the route
ChatResolve(r, resp) ==
    /\ Idle
    /\ req[r].pc = "awaiting"
    /\ req[r].kind = "send"
    /\ completed' = Append(completed, r)
    /\ LET sid == HandlerSessionId(req[r])
           assistantMessage == [role |-> "assistant", rid |-> r,
                                content |-> <<"r">>, timestamp |-> now]
       IN  IF chatError(resp) # ""
           THEN /\ req' = [Reject(r, 500, "AI_API_ERROR", chatError(resp))
                               EXCEPT ![r].upstream = resp]
                /\ UNCHANGED sessions
           ELSE IF addMessageThrows(sessions, sid)
           THEN /\ req' = [Reject(r, 500, "DATABASE_ERROR", "Session not found")
                               EXCEPT ![r].upstream = resp]
                /\ UNCHANGED sessions
           ELSE /\ sessions' = addMessage(addMessage(sessions, sid, StoredUserMessage(r)),
                                          sid, assistantMessage)
                /\ req' = [req EXCEPT ![r].pc = "done", ![r].status = 200,
                                      ![r].code = "OK", ![r].upstream = resp]
    /\ UNCHANGED <<now, rateLimitMap, epoch, server, registry>>

\* ---------------------------------------------------------------- streaming
\* one chunk: {delta, done, messageId?, error?}; req[r].calls is the sequence
\* of chunks streamMessage passed to onChunk, req[r].out what the route wrote
Unit(delta, done, messageId, error) ==
    [delta |-> delta, done |-> done, messageId |-> messageId, error |-> error]

\* the callback the stream route passes as onChunk: write unless disconnected
onChunk(closed, out, chunk) == IF closed THEN out ELSE Append(out, chunk)

\* the catch of the stream route: the error chunk is written unconditionally
RouteCatch(out, message) == Append(out, Unit(<<>>, TRUE, FALSE, message))

\* router.get('/stream') with streamMessage up to await provider.chatStream
RouteStream(r) ==
    /\ req[r].pc = "route"
    /\ req[r].kind = "stream"
    /\ LET q == [req[r] EXCEPT !.routed = TRUE]
           sid == HandlerSessionId(q)
       IN  IF RouteParamError(q) # "ok"
           THEN /\ req' = [req EXCEPT ![r] = [q EXCEPT !.pc = "done", !.status = 400,
                               !.code = RouteParamError(q), !.msg = "parameter"]]
                /\ UNCHANGED sessions
           ELSE IF Validation(q) # "valid"
           THEN /\ req' = [req EXCEPT ![r] = [q EXCEPT !.pc = "done", !.status = 200,
                               !.code = Validation(q), !.msg = "validation",
                               !.sse = TRUE, !.ended = TRUE,
                               !.out = RouteCatch(q.out, "validation")]]
                /\ UNCHANGED sessions
           ELSE /\ sessions' = GetOrCreate(sid, q.userId)
                /\ req' = [req EXCEPT ![r] = [q EXCEPT !.pc = "streaming",
                               !.status = 200, !.sse = TRUE,
                               !.created = sid \notin DOMAIN sessions,
                               !.called = TRUE, !.userTs = now,
                               !.ep = epoch[sid],
                               !.ctx = BuildMessages(r, q.cfg, sessions'[sid].messages)]]
    /\ UNCHANGED <<now, rateLimitMap, completed, epoch, server, registry>>

StreamDeltaPrepend(r, d) ==
    /\ Idle
    /\ req[r].pc = "streaming"
    /\ req[r].n < MaxDeltas
    /\ req' = [req EXCEPT ![r].full = d \o @, ![r].n = @ + 1,
                 ![r].calls = Append(@, Unit(d, FALSE, TRUE, "")),
                 ![r].out = onChunk(req[r].closed, @, Unit(d, FALSE, TRUE, ""))]
    /\ UNCHANGED <<now, rateLimitMap, sessions, completed, epoch, server, registry>>

\* the delta callback of streamMessage, run for one delta of the provider
StreamDelta(r, d) ==
    /\ Idle
    /\ req[r].pc = "streaming"
    /\ req[r].n < MaxDeltas
    /\ req' = [req EXCEPT ![r].full = @ \o d, ![r].n = @ + 1,
                 ![r].calls = Append(@, Unit(d, FALSE, TRUE, "")),
                 ![r].out = onChunk(req[r].closed, @, Unit(d, FALSE, TRUE, ""))]
    /\ UNCHANGED <<now, rateLimitMap, sessions, completed, epoch, server, registry>>

\* the 'close' listener of the stream route
Close(r) ==
    /\ Idle
    /\ req[r].pc = "streaming"
    /\ ~req[r].closed
    /\ req' = [req EXCEPT ![r].closed = TRUE]
    /\ UNCHANGED <<now, rateLimitMap, sessions, completed, epoch, server, registry>>

chatStreamErrorSilent(f) ==
    CASE f = "transport" -> ""
      [] f = "status" -> "API error: status - upstream body"
      [] f = "nobody" -> "No response body from API"

\* OpenAICompatibleProvider.chatStream: the text of the AppError it throws
chatStreamError(f) ==
    CASE f = "transport" -> "Failed to stream from API"
      [] f = "status" -> "API error: status - upstream body"
      [] f = "nobody" -> "No response body from API"

\* streamMessage from the clean return of chatStream to the end of the route
StreamEnd(r) ==
    /\ Idle
    /\ req[r].pc = "streaming"
    /\ completed' = Append(completed, r)
    /\ LET q == req[r]
           sid == HandlerSessionId(q)
           final == onChunk(q.closed, q.out, Unit(<<>>, TRUE, TRUE, ""))
           assistantMessage == [role |-> "assistant", rid |-> r,
                                content |-> q.full, timestamp |-> now]
       IN  IF addMessageThrows(sessions, sid)
           THEN /\ req' = [req EXCEPT ![r] = [q EXCEPT !.pc = "done",
                               !.code = "DATABASE_ERROR", !.msg = "Session not found",
                               !.upstream = "ok", !.ended = TRUE,
                               !.calls = q.calls \o
                                   <<Unit(<<>>, TRUE, TRUE, ""),
                                     Unit(<<>>, TRUE, FALSE, "Session not found")>>,
                               !.out = RouteCatch(onChunk(q.closed, final,
                                           Unit(<<>>, TRUE, FALSE, "Session not found")),
                                           "Session not found")]]
                /\ UNCHANGED sessions
           ELSE /\ sessions' = addMessage(addMessage(sessions, sid, StoredUserMessage(r)),
                                          sid, assistantMessage)
                /\ req' = [req EXCEPT ![r] = [q EXCEPT !.pc = "done", !.code = "OK",
                               !.upstream = "ok",
                               !.calls = Append(@, Unit(<<>>, TRUE, TRUE, "")),
                               !.out = final, !.ended = ~q.closed]]
    /\ UNCHANGED <<now, rateLimitMap, epoch, server, registry>>

\* streamMessage from the failure of chatStream to the end of the route
StreamFail(r, f) ==
    /\ Idle
    /\ req[r].pc = "streaming"
    /\ f \in {"status", "nobody"} => req[r].n = 0
    /\ completed' = Append(completed, r)
    /\ LET q == req[r]
       IN  req' = [req EXCEPT ![r] = [q EXCEPT !.pc = "done",
                       !.code = "AI_API_ERROR", !.msg = chatStreamError(f),
                       !.upstream = f, !.ended = TRUE,
                       !.calls = Append(@, Unit(<<>>, TRUE, FALSE, chatStreamError(f))),
                       !.out = RouteCatch(onChunk(q.closed, q.out,
                                   Unit(<<>>, TRUE, FALSE, chatStreamError(f))),
                                   chatStreamError(f))]]
    /\ UNCHANGED <<now, rateLimitMap, sessions, epoch, server, registry>>

\* ---------------------------------------------------------------- inputs of the runs
Input(t, k, bs, qs, c, ml, mp) ==
    [token |-> t, kind |-> k, bodySid |-> bs, querySid |-> qs, cfg |-> c,
     msgLen |-> ml, missing |-> mp]

\* buffered requests of both users on one conversation
CoreInputs == {Input(t, "send", "s1", NoSid, GoodCfg, 1, "") : t \in Users}

\* Spec: buffered exchanges, the limiter and the expiry sweep
Next ==
    \/ Tick
    \/ CleanExpiredSessions
    \/ \E r \in Rids, i \in CoreInputs : AuthMiddleware(r, i)
    \/ \E r \in Rids : SessionAuthMiddleware(r)
    \/ \E r \in Rids : RateLimitCheck(r)
    \/ \E r \in Rids : RateLimitRecord(r)
    \/ \E r \in Rids : RouteSend(r)
    \/ \E r \in Rids, resp \in Responses : ChatResolve(r, resp)

Spec == Init /\ [][Next]_vars

\* one user, streaming requests on one conversation
StreamInputs ==
    {Input("A", "stream", NoSid, "s1", c, 1, "") : c \in {GoodCfg, PromptCfg, HotCfg}}

\* SpecStream: streaming exchanges with deltas, failures and disconnects
NextStream ==
    \/ Tick
    \/ CleanExpiredSessions
    \/ \E r \in 1..StreamReqs, i \in StreamInputs : AuthMiddleware(r, i)
    \/ \E r \in Rids : SessionAuthMiddleware(r)
    \/ \E r \in Rids : RateLimitCheck(r)
    \/ \E r \in Rids : RateLimitRecord(r)
    \/ \E r \in Rids : RouteStream(r)
    \/ \E r \in Rids, d \in Deltas : StreamDelta(r, d)
    \/ \E r \in Rids : Close(r)
    \/ \E r \in Rids : StreamEnd(r)
    \/ \E r \in Rids, f \in StreamFailures : StreamFail(r, f)

SpecStream == Init /\ [][NextStream]_vars

\* every token, both endpoints, body and query naming different conversations
AuthInputs ==
    {Input(t, "send", bs, NoSid, GoodCfg, 1, "") :
        t \in Tokens, bs \in SessionIds \cup {NoSid}}
    \cup {Input(t, "stream", bs, qs, GoodCfg, 1, "") :
        t \in Tokens, bs \in SessionIds \cup {NoSid}, qs \in SessionIds \cup {NoSid}}

\* SpecAuth: the two checks in front of the handlers, exchanges that succeed
NextAuth ==
    \/ \E r \in Rids, i \in AuthInputs : AuthMiddleware(r, i)
    \/ \E r \in Rids : SessionAuthMiddleware(r)
    \/ \E r \in Rids : RateLimitCheck(r)
    \/ \E r \in Rids : RateLimitRecord(r)
    \/ \E r \in Rids : RouteSend(r)
    \/ \E r \in Rids : RouteStream(r)
    \/ \E r \in Rids : ChatResolve(r, "ok")
    \/ \E r \in Rids : StreamEnd(r)

SpecAuth == Init /\ [][NextAuth]_vars

\* both endpoints with valid and invalid parameters
ValidInputs ==
    {Input("A", k, IF k = "send" THEN "s1" ELSE NoSid,
           IF k = "send" THEN NoSid ELSE "s1", c, 1, "") :
        k \in {"send", "stream"}, c \in {GoodCfg} \cup BadCfgs}
    \cup {Input("A", k, IF k = "send" THEN "s1" ELSE NoSid,
                IF k = "send" THEN NoSid ELSE "s1", GoodCfg,
                maxMessageLength + 1, "") : k \in {"send", "stream"}}

\* SpecValid: validation in front of the exchange
NextValid ==
    \/ Tick
    \/ \E r \in Rids, i \in ValidInputs : AuthMiddleware(r, i)
    \/ \E r \in Rids : SessionAuthMiddleware(r)
    \/ \E r \in Rids : RateLimitCheck(r)
    \/ \E r \in Rids : RateLimitRecord(r)
    \/ \E r \in Rids : RouteSend(r)
    \/ \E r \in Rids : RouteStream(r)
    \/ \E r \in Rids : ChatResolve(r, "ok")
    \/ \E r \in Rids : StreamEnd(r)

SpecValid == Init /\ [][NextValid]_vars

\* both endpoints with a parameter missing, an unsupported model, a temperature
\* out of range or a message over the length, and one buffered request in order
AdmitInputs ==
    {Input("A", k, IF k = "send" THEN "s1" ELSE NoSid,
           IF k = "send" THEN NoSid ELSE "s1", c, 1, "") :
        k \in {"send", "stream"},
        c \in {HotCfg, [model |-> UnknownModel, temperature |-> 5, promptLen |-> 0]}}
    \cup {Input("A", k, IF k = "send" THEN "s1" ELSE NoSid,
                IF k = "send" THEN NoSid ELSE "s1", GoodCfg, 1, "agentConfig") :
            k \in {"send", "stream"}}
    \cup {Input("A", k, IF k = "send" THEN "s1" ELSE NoSid,
                IF k = "send" THEN NoSid ELSE "s1", GoodCfg,
                maxMessageLength + 1, "") : k \in {"send", "stream"}}
    \cup {Input("A", "send", "s1", NoSid, GoodCfg, 1, "")}

\* SpecAdmit: the limiter in front of the parameter checks and the validation
NextAdmit ==
    \/ Tick
    \/ \E r \in Rids, i \in AdmitInputs : AuthMiddleware(r, i)
    \/ \E r \in Rids : SessionAuthMiddleware(r)
    \/ \E r \in Rids : RateLimitCheck(r)
    \/ \E r \in Rids : RateLimitRecord(r)
    \/ \E r \in Rids : RouteSend(r)
    \/ \E r \in Rids : RouteStream(r)
    \/ \E r \in Rids : ChatResolve(r, "ok")

SpecAdmit == Init /\ [][NextAdmit]_vars

\* every token on both endpoints, on one conversation, with parameters in order
\* and with a temperature out of range
ChainInputs ==
    {Input(t, k, IF k = "send" THEN "s1" ELSE NoSid,
           IF k = "send" THEN NoSid ELSE "s1", c, 1, "") :
        t \in Tokens, k \in {"send", "stream"}, c \in {GoodCfg, HotCfg}}

\* SpecChain: the whole chain in front of the provider, every stage rejecting
NextChain ==
    \/ \E r \in Rids, i \in ChainInputs : AuthMiddleware(r, i)
    \/ \E r \in Rids : SessionAuthMiddleware(r)
    \/ \E r \in Rids : RateLimitCheck(r)
    \/ \E r \in Rids : RateLimitRecord(r)
    \/ \E r \in Rids : RouteSend(r)
    \/ \E r \in Rids : RouteStream(r)
    \/ \E r \in Rids, resp \in Responses : ChatResolve(r, resp)
    \/ \E r \in Rids : StreamEnd(r)
    \/ \E r \in Rids, f \in StreamFailures : StreamFail(r, f)

SpecChain == Init /\ [][NextChain]_vars

\* SpecEvict: buffered exchanges of both users on one conversation that the
\* sweep or deleteSession may remove at any time
NextEvict ==
    \/ Tick
    \/ CleanExpiredSessions
    \/ \E s \in SessionIds : DeleteSession(s)
    \/ \E r \in Rids, i \in CoreInputs : AuthMiddleware(r, i)
    \/ \E r \in Rids : SessionAuthMiddleware(r)
    \/ \E r \in Rids : RateLimitCheck(r)
    \/ \E r \in Rids : RateLimitRecord(r)
    \/ \E r \in Rids : RouteSend(r)
    \/ \E r \in Rids, resp \in Responses : ChatResolve(r, resp)

SpecEvict == Init /\ [][NextEvict]_vars

\* one user on one conversation, both endpoints, with and without system prompt
ContextInputs ==
    {Input("A", k, IF k = "send" THEN "s1" ELSE NoSid,
           IF k = "send" THEN NoSid ELSE "s1", c, 1, "") :
        k \in {"send", "stream"}, c \in {GoodCfg, PromptCfg}}

\* SpecContext: exchanges of both endpoints that follow one another on one
\* conversation
NextContext ==
    \/ Tick
    \/ \E r \in Rids, i \in ContextInputs : AuthMiddleware(r, i)
    \/ \E r \in Rids : SessionAuthMiddleware(r)
    \/ \E r \in Rids : RateLimitCheck(r)
    \/ \E r \in Rids : RateLimitRecord(r)
    \/ \E r \in Rids : RouteSend(r)
    \/ \E r \in Rids : RouteStream(r)
    \/ \E r \in Rids : ChatResolve(r, "ok")
    \/ \E r \in Rids : StreamEnd(r)

SpecContext == Init /\ [][NextContext]_vars

\* SpecLimiter: the limiter with its sweep started, in front of buffered
\* exchanges of both users
NextLimiter ==
    \/ Tick
    \/ StartedRateLimitCleanup
    \/ \E r \in Rids, i \in CoreInputs : AuthMiddleware(r, i)
    \/ \E r \in Rids : SessionAuthMiddleware(r)
    \/ \E r \in Rids : RateLimitCheck(r)
    \/ \E r \in Rids : RateLimitRecord(r)
    \/ \E r \in Rids : RouteSend(r)
    \/ \E r \in Rids : ChatResolve(r, "ok")

SpecLimiter == Init /\ [][NextLimiter]_vars

\* buffered requests of two users, each on a conversation of their own
SweepInputs ==
    {Input("A", "send", "s1", NoSid, GoodCfg, 1, ""),
     Input("B", "send", "s2", NoSid, GoodCfg, 1, "")}

\* SpecSweep: conversations of different ages and the expiry sweep
NextSweep ==
    \/ Tick
    \/ CleanExpiredSessions
    \/ \E r \in Rids, i \in SweepInputs : AuthMiddleware(r, i)
    \/ \E r \in Rids : SessionAuthMiddleware(r)
    \/ \E r \in Rids : RateLimitCheck(r)
    \/ \E r \in Rids : RateLimitRecord(r)
    \/ \E r \in Rids : RouteSend(r)
    \/ \E r \in Rids : ChatResolve(r, "ok")

SpecSweep == Init /\ [][NextSweep]_vars

\* a request inside synchronous code runs on to its await or its response
SyncStep ==
    \E r \in Rids :
       \/ SessionAuthMiddleware(r)
       \/ RateLimitCheck(r)
       \/ RateLimitRecord(r)
       \/ RouteSend(r)

\* SpecSweepFair: SpecSweep with the interval timer of server.ts firing again
\* and again and synchronous code running to completion
SpecSweepFair ==
    /\ Init /\ [][NextSweep]_vars
    /\ WF_vars(CleanExpiredSessions)
    /\ WF_vars(SyncStep)

\* ---------------------------------------------------------------- startup
\* the provider sections a configuration file may hold
ProviderLists ==
    { <<>>,
      <<ProviderEntry("deepseek", TRUE, {SupportedModel})>>,
      <<ProviderEntry("DeepSeek", TRUE, {SupportedModel})>>,
      <<ProviderEntry("deepseek", TRUE, {SupportedModel}),
        ProviderEntry("new-provider", TRUE, {"model-1"})>>,
      <<ProviderEntry("deepseek", FALSE, {SupportedModel})>>,
      <<ProviderEntry("deepseek", TRUE, {})>> }

\* the configuration files the server may be started with
Configs ==
    {Config(ps, rl, se) :
        ps \in ProviderLists,
        rl \in {CompleteRateLimits, IncompleteRateLimits, MissingRateLimits},
        se \in {CompleteSession, IncompleteSession, MissingSession}}

\* the state before server.ts has run, with the configuration file it finds
InitConfig ==
    /\ now = 0
    /\ rateLimitMap = <<>>
    /\ sessions = <<>>
    /\ req = [r \in Rids |-> NewReq]
    /\ completed = <<>>
    /\ epoch = [s \in SessionIds |-> 0]
    /\ server \in {[state |-> "starting", config |-> c, error |-> "",
                    loaded |-> FALSE] : c \in Configs}
    /\ registry = EmptyRegistry

\* server.ts: loadConfig, process.exit(1) if it throws, else the services are
\* built from the configuration (AIProviderService on its first use, from the
\* same configuration, which nothing changes in between); loadConfig assigns
\* this.config before validateConfig runs
Startup ==
    /\ server.state = "starting"
    /\ server' = [server EXCEPT
                    !.state = IF validateConfig(server.config) = ""
                              THEN "running" ELSE "exited",
                    !.error = validateConfig(server.config),
                    !.loaded = TRUE]
    /\ registry' = IF validateConfig(server.config) = ""
                   THEN initializeProviders(server.config) ELSE registry
    /\ UNCHANGED <<now, rateLimitMap, sessions, req, completed, epoch>>

\* a call of AIProviderService.registerProvider on the running server
RegisterProvider(name, models) ==
    /\ server.state = "running"
    /\ Idle
    /\ registry' = registerProvider(registry, name, models)
    /\ UNCHANGED <<now, rateLimitMap, sessions, req, completed, epoch, server>>

\* buffered requests that name a configured model
ConfigInputs ==
    {Input("A", "send", "s1", NoSid,
           [model |-> m, temperature |-> 5, promptLen |-> 0], 1, "") :
        m \in {SupportedModel, "model-1"}}

\* SpecConfig: startup with any configuration file, then buffered exchanges
NextConfig ==
    \/ Startup
    \/ \E name \in {"new-provider", "custom"},
          models \in {{"model-1"}, {"model-1", SupportedModel}} :
          RegisterProvider(name, models)
    \/ \E r \in Rids, i \in ConfigInputs : AuthMiddleware(r, i)
    \/ \E r \in Rids : SessionAuthMiddleware(r)
    \/ \E r \in Rids : RateLimitCheck(r)
    \/ \E r \in Rids : RateLimitRecord(r)
    \/ \E r \in Rids : RouteSend(r)
    \/ \E r \in Rids : ChatResolve(r, "ok")

SpecConfig == InitConfig /\ [][NextConfig]_vars

\* ---------------------------------------------------------------- claims
\* the requests of identity u that the limiter admitted
Admitted(u) == {r \in Rids : req[r].userId = u /\ req[r].admittedAt >= 0}

\* the admitted requests of u with a timestamp in the window that ends at t
AdmittedIn(u, t) ==
    {r \in Admitted(u) :
        req[r].admittedAt > t - RATE_LIMIT_WINDOW_MS /\ req[r].admittedAt <= t}

\* C1: for every identity and every trailing window of RATE_LIMIT_WINDOW_MS
\* that ends at a time up to now, at most RATE_LIMIT_MAX_REQUESTS admitted
\* requests have their timestamp in it; a request the limiter turned down
\* got 429 RATE_LIMIT_EXCEEDED, was not recorded and next() was not called
\* for it (the route handler never ran); a request that reaches the limiter
\* when the cap is already admitted within its window is turned down.
C1_WindowNeverExceedsCap ==
    /\ \A u \in Users, t \in 0..now :
          Cardinality(AdmittedIn(u, t)) <= RATE_LIMIT_MAX_REQUESTS
    /\ \A r \in Rids :
          req[r].code = "RATE_LIMIT_EXCEEDED" =>
             /\ req[r].status = 429
             /\ req[r].pc = "done"
             /\ req[r].admittedAt < 0
             /\ ~req[r].routed
    /\ \A r \in Rids :
          /\ req[r].rlAt >= 0
          /\ Cardinality({p \in Admitted(req[r].userId) :
                 p < r /\ req[p].admittedAt > req[r].rlAt - RATE_LIMIT_WINDOW_MS})
                >= RATE_LIMIT_MAX_REQUESTS
          => req[r].code = "RATE_LIMIT_EXCEEDED"

\* C1 witness: the cap is reached in the current window and a further request
\* of the same identity has been turned down
C1_Witness ==
    \E u \in Users, r \in Rids :
       /\ Cardinality(AdmittedIn(u, now)) = RATE_LIMIT_MAX_REQUESTS
       /\ req[r].userId = u
       /\ req[r].code = "RATE_LIMIT_EXCEEDED"

\* C2: the limit check and the recording of one request are never interleaved
\* with the check or the recording of another one: while a request is between
\* its check and its recording no other request is inside the limiter, and the
\* recording finds at most what the check counted, so that it holds at most
\* the cap once the request is added.
C2_CheckAndRecordAtomic ==
    /\ \A r1, r2 \in Rids :
          r1 # r2 /\ req[r1].pc = "rateRecord" =>
             req[r2].pc \notin {"rateLimit", "rateRecord"}
    /\ \A r \in Rids :
          req[r].admittedAt >= 0 =>
             /\ req[r].rlLen <= req[r].rlSeen + 1
             /\ req[r].rlLen <= RATE_LIMIT_MAX_REQUESTS

\* C2 witness: a request in flight took the last slot of the window and a
\* second request of the same identity, handled while the first is in flight,
\* was turned down
C2_Witness ==
    \E r1, r2 \in Rids :
       /\ r1 < r2
       /\ req[r1].userId = req[r2].userId
       /\ req[r1].pc = "awaiting"
       /\ req[r1].rlLen = RATE_LIMIT_MAX_REQUESTS
       /\ req[r2].code = "RATE_LIMIT_EXCEEDED"

\* the turns stored for conversation s
Turns(s) == sessions[s].messages

\* the buffered exchanges on conversation s that completed successfully
OkSends(s) ==
    {r \in Rids : /\ req[r].kind = "send"
                  /\ HandlerSessionId(req[r]) = s
                  /\ req[r].code = "OK"}

\* the positions in conversation s of the turns of exchange r with a role
TurnsOf(s, r, role) ==
    {k \in DOMAIN Turns(s) : Turns(s)[k].rid = r /\ Turns(s)[k].role = role}

\* C3: a conversation that was never evicted holds, for its N successful
\* buffered exchanges, exactly 2N turns of buffered exchanges: exactly one user
\* turn and one assistant turn of each of them, and no turn of any other
\* buffered exchange.
C3_TwoTurnsPerExchange ==
    \A s \in DOMAIN sessions :
       epoch[s] = 0 =>
          /\ Len(SelectSeq(Turns(s), LAMBDA t : req[t.rid].kind = "send"))
                = 2 * Cardinality(OkSends(s))
          /\ \A r \in OkSends(s) :
                /\ Cardinality(TurnsOf(s, r, "user")) = 1
                /\ Cardinality(TurnsOf(s, r, "assistant")) = 1

\* C3 witness: two successful buffered exchanges that overlapped in time (each
\* was sent upstream with no history) left four turns
C3_Witness ==
    \E s \in DOMAIN sessions :
       /\ epoch[s] = 0
       /\ Cardinality(OkSends(s)) = 2
       /\ Len(Turns(s)) = 4
       /\ \A r \in OkSends(s) : Len(req[r].ctx) = 1

\* the exchanges committed to conversation s, in the order their upstream
\* calls completed
CommittedInOrder(s) ==
    SelectSeq(completed,
              LAMBDA r : req[r].code = "OK" /\ HandlerSessionId(req[r]) = s)

\* C4: the turns of a conversation that was never evicted are the pairs
\* (user turn, assistant turn) of its committed exchanges, each pair adjacent,
\* the pairs in the order in which the upstream calls completed; two
\* overlapping exchanges therefore end with exactly 4 turns.
C4_PairsInCompletionOrder ==
    \A s \in DOMAIN sessions :
       epoch[s] = 0 =>
          /\ Len(Turns(s)) = 2 * Len(CommittedInOrder(s))
          /\ \A k \in 1..Len(CommittedInOrder(s)) :
                /\ Turns(s)[2 * k - 1].role = "user"
                /\ Turns(s)[2 * k - 1].rid = CommittedInOrder(s)[k]
                /\ Turns(s)[2 * k].role = "assistant"
                /\ Turns(s)[2 * k].rid = CommittedInOrder(s)[k]

\* C4 witness: two exchanges were in flight together (neither saw the other's
\* turns) and the one that started later completed first: its pair comes first
C4_Witness ==
    \E s \in DOMAIN sessions, r1, r2 \in Rids :
       /\ epoch[s] = 0
       /\ r1 < r2
       /\ {r1, r2} \subseteq OkSends(s)
       /\ Len(req[r1].ctx) = 1 /\ Len(req[r2].ctx) = 1
       /\ Len(Turns(s)) = 4
       /\ Turns(s)[1].rid = r2 /\ Turns(s)[2].rid = r2
       /\ Turns(s)[3].rid = r1 /\ Turns(s)[4].rid = r1

\* the history part of the array exchange r sent upstream: without the system
\* prompt in front and without its own user message at the end
History(r) ==
    LET c == req[r].ctx
        first == IF c[1].role = "system" THEN 2 ELSE 1
    IN  SubSeq(c, first, Len(c) - 1)

\* C5: for every committed exchange the history it sent upstream is the
\* sequence of turns stored in front of its own user turn.
C5_ContextIsWhatPrecedes ==
    \A s \in DOMAIN sessions :
       epoch[s] = 0 =>
          \A k \in DOMAIN Turns(s) :
             Turns(s)[k].role = "user" =>
                History(Turns(s)[k].rid) = SubSeq(Turns(s), 1, k - 1)

UpstreamFailures == {"transport", "status", "malformed"}

Violations(q) ==
    (IF q.cfg.model # SupportedModel THEN {"INVALID_MODEL"} ELSE {})
    \cup (IF q.cfg.temperature < 0 \/ q.cfg.temperature > 10
          THEN {"INVALID_TEMPERATURE"} ELSE {})
    \cup (IF q.cfg.promptLen > maxSystemPromptLength
          THEN {"SYSTEM_PROMPT_TOO_LONG"} ELSE {})
    \cup (IF q.msgLen > maxMessageLength THEN {"MESSAGE_TOO_LONG"} ELSE {})

\* C7: a request that reached sendMessage or streamMessage with an unsupported
\* model, a temperature outside [0,1] or a message or system prompt over the
\* configured length ended with one of the matching errors (status 400 on the
\* buffered endpoint), created no conversation, stored no turn, caused no
\* provider call, and the step that handled it left the store unchanged.
C7_InvalidRequestTouchesNothing ==
    /\ [](\A r \in Rids :
            req[r].routed /\ Violations(req[r]) # {} =>
               /\ req[r].pc = "done"
               /\ req[r].code \in Violations(req[r])
               /\ req[r].kind = "send" => req[r].status = 400
               /\ ~req[r].called
               /\ ~req[r].created
               /\ \A s \in DOMAIN sessions :
                     \A k \in DOMAIN Turns(s) : Turns(s)[k].rid # r)
    /\ [][\A r \in Rids :
            req[r].pc = "route" /\ req'[r].pc # "route"
            /\ Violations(req[r]) # {} => sessions' = sessions]_vars

\* C7 witness: a request with temperature 1.5 was rejected while the
\* conversation it names holds the turns of an earlier exchange
C7_Witness ==
    \E r \in Rids :
       /\ req[r].routed
       /\ req[r].cfg.temperature = 15
       /\ req[r].code = "INVALID_TEMPERATURE"
       /\ HandlerSessionId(req[r]) \in DOMAIN sessions
       /\ Len(Turns(HandlerSessionId(req[r]))) = 2

\* the request that created the conversation now stored under s
Creator(s) ==
    CHOOSE r \in Rids :
       /\ req[r].created /\ HandlerSessionId(req[r]) = s
       /\ \A p \in Rids :
             req[p].created /\ HandlerSessionId(req[p]) = s => p <= r

\* C8: while a conversation exists its owner does not change, and a step of a
\* request that arrived after its creation, names it and was presented by
\* another identity than its owner leaves its turns as they are.
C8_OwnerFixedTurnsUntouched ==
    [][\A s \in DOMAIN sessions :
          s \in DOMAIN sessions' =>
             /\ sessions'[s].userId = sessions[s].userId
             /\ \A r \in Rids :
                   /\ req'[r] # req[r]
                   /\ HandlerSessionId(req'[r]) = s
                   /\ req'[r].userId # sessions[s].userId
                   /\ r > Creator(s)
                   => sessions'[s].messages = sessions[s].messages]_vars

\* C9: a request that named, when sessionAuthMiddleware ran, an existing
\* conversation of another identity was answered 403 FORBIDDEN_SESSION: its
\* route handler did not run, no provider was called for it and none of its
\* turns is stored.
C9_ForeignConversationForbidden ==
    \A r \in Rids :
       req[r].foreign =>
          /\ req[r].pc = "done"
          /\ req[r].status = 403
          /\ req[r].code = "FORBIDDEN_SESSION"
          /\ ~req[r].routed
          /\ ~req[r].called
          /\ \A s \in DOMAIN sessions :
                \A k \in DOMAIN Turns(s) : Turns(s)[k].rid # r

\* the positions of the units with done = true written for exchange r
DoneUnits(r) == {k \in DOMAIN req[r].out : req[r].out[k].done}

\* C10: an exchange that started streaming has at most one unit with
\* done = true written, nothing is written after it, and once the exchange
\* is over with the client still connected exactly one was written.
C10_ExactlyOneDoneUnit ==
    \A r \in Rids :
       req[r].sse =>
          /\ Cardinality(DoneUnits(r)) <= 1
          /\ \A k \in DoneUnits(r) : k = Len(req[r].out)
          /\ req[r].pc = "done" /\ ~req[r].closed =>
                Cardinality(DoneUnits(r)) = 1

\* the positions of the chunks with done = true that streamMessage passed to
\* onChunk for exchange r
DoneCalls(r) == {k \in DOMAIN req[r].calls : req[r].calls[k].done}

\* the text of each provider failure of a streaming exchange
FailureText ==
    [transport |-> "Failed to stream from API",
     status |-> "API error: status - upstream body",
     nobody |-> "No response body from API"]

\* C11: for a streaming exchange whose provider failed after zero or more
\* deltas, streamMessage called onChunk exactly once with done = true, as its
\* last call, carrying the text of the failure and no completion identifier;
\* no turn of the exchange is stored in any conversation, and the step in
\* which it failed left the store as it was (the accumulated text is dropped).
C11_StreamFailureOneErrorChunkNoCommit ==
    /\ [](\A r \in Rids :
            req[r].kind = "stream" /\ req[r].upstream \in StreamFailures =>
               /\ Cardinality(DoneCalls(r)) = 1
               /\ DoneCalls(r) = {Len(req[r].calls)}
               /\ Len(req[r].calls) = req[r].n + 1
               /\ req[r].calls[Len(req[r].calls)].error = FailureText[req[r].upstream]
               /\ ~req[r].calls[Len(req[r].calls)].messageId
               /\ \A s \in DOMAIN sessions :
                     \A k \in DOMAIN Turns(s) : Turns(s)[k].rid # r)
    /\ [][\A r \in Rids :
            req[r].kind = "stream" /\ req[r].upstream = "-"
            /\ req'[r].upstream \in StreamFailures => sessions' = sessions]_vars

\* C11 witness: the provider failed after two deltas had been accumulated, the
\* conversation of the exchange is still stored and holds no turn
C11_Witness ==
    \E r \in Rids :
       /\ req[r].kind = "stream"
       /\ req[r].upstream = "transport"
       /\ req[r].n = 2
       /\ Len(req[r].full) > 0
       /\ HandlerSessionId(req[r]) \in DOMAIN sessions
       /\ Turns(HandlerSessionId(req[r])) = <<>>

\* the streaming exchanges that ended cleanly and were committed
OkStreams == {r \in Rids : req[r].kind = "stream" /\ req[r].code = "OK"}

\* the concatenation of the deltas of a sequence of chunks, in order
RECURSIVE ConcatDeltas(_)
ConcatDeltas(cs) ==
    IF cs = <<>> THEN <<>> ELSE Head(cs).delta \o ConcatDeltas(Tail(cs))

C13_NoUnitAfterDisconnect ==
    [][\A r \in Rids : req[r].closed => req'[r].out = req[r].out]_vars

\* C14: the step in which the provider of a streaming exchange finishes
\* cleanly after the client has disconnected leaves the user turn and the
\* assistant turn of the exchange as the last two turns of its conversation,
\* the assistant turn holding everything accumulated, the deltas that came
\* after the disconnect included.
C14_CommitAfterDisconnect ==
    [][\A r \in Rids :
          /\ req[r].pc = "streaming" /\ req[r].closed
          /\ req'[r].upstream = "ok"
          => LET s == HandlerSessionId(req[r])
             IN  /\ s \in DOMAIN sessions'
                 /\ Len(sessions'[s].messages) >= 2
                 /\ LET m == sessions'[s].messages
                    IN  /\ m[Len(m) - 1].role = "user" /\ m[Len(m) - 1].rid = r
                        /\ m[Len(m)].role = "assistant" /\ m[Len(m)].rid = r
                        /\ m[Len(m)].content = req[r].full]_vars

\* C15: in what is written for one exchange, a unit that carries a messageId
\* has done = true and no error, a unit that carries an error has done = true
\* and no messageId, and a unit with done = false carries neither.
C15_IdAndErrorOnlyOnFinalUnit ==
    \A r \in Rids :
       \A k \in DOMAIN req[r].out :
          LET u == req[r].out[k]
          IN  /\ u.messageId => u.done /\ u.error = ""
              /\ u.error # "" => u.done /\ ~u.messageId
              /\ ~u.done => ~u.messageId /\ u.error = ""

\* C16: a step that removes a conversation removes exactly the conversations
\* whose now - updatedAt is strictly greater than the expiration; every other
\* conversation, one whose age equals the expiration included, stays in the
\* store with its owner, its turns and its timestamps unchanged.
C16_SweepRemovesExactlyTheExpired ==
    [][(\E s \in DOMAIN sessions : s \notin DOMAIN sessions') =>
          /\ \A s \in DOMAIN sessions :
                s \notin DOMAIN sessions' <=>
                   now - sessions[s].updatedAt > expirationMs
          /\ \A s \in DOMAIN sessions :
                s \in DOMAIN sessions' => sessions'[s] = sessions[s]
          /\ DOMAIN sessions' \subseteq DOMAIN sessions]_vars

\* C16 witness: the sweep ran at time expiration + 1: the conversation last
\* touched at time 0 was removed, the one last touched at time 1, whose age is
\* the expiration exactly, is stored
C16_Witness ==
    \E s, t \in SessionIds :
       /\ now = expirationMs + 1
       /\ epoch[s] = 1 /\ s \notin DOMAIN sessions
       /\ t \in DOMAIN sessions
       /\ now - sessions[t].updatedAt = expirationMs

\* C17: with the sweep firing again and again, a stored conversation whose
\* inactivity exceeds the expiration is eventually removed from the store
\* unless an append refreshes it; and no step removes a conversation whose
\* inactivity is at most the expiration.
C17_InactiveEventuallyRemoved ==
    /\ \A s \in SessionIds :
          (s \in DOMAIN sessions /\ now - sessions[s].updatedAt > expirationMs)
             ~> (s \notin DOMAIN sessions
                 \/ now - sessions[s].updatedAt <= expirationMs)
    /\ [][\A s \in DOMAIN sessions :
            now - sessions[s].updatedAt <= expirationMs => s \in DOMAIN sessions']_vars

\* C17 witness: a conversation that held the two turns of a successful
\* exchange was removed by the sweep and has not been created again
C17_Witness ==
    \E r \in Rids :
       /\ req[r].code = "OK"
       /\ epoch[HandlerSessionId(req[r])] = 1
       /\ HandlerSessionId(req[r]) \notin DOMAIN sessions

\* C18: a step that keeps a conversation in the store leaves every turn it
\* already holds as it is and where it is: the new turn list is the old one
\* with zero or more turns added at its end.
C18_TurnsAppendOnly ==
    [][\A s \in DOMAIN sessions :
          s \in DOMAIN sessions' =>
             /\ Len(sessions'[s].messages) >= Len(sessions[s].messages)
             /\ SubSeq(sessions'[s].messages, 1, Len(sessions[s].messages))
                   = sessions[s].messages]_vars

\* C18 witness: an exchange that found two turns in its conversation (it sent
\* them upstream in front of its own message) was committed behind them
C18_Witness ==
    \E r \in Rids :
       /\ req[r].code = "OK"
       /\ Len(req[r].ctx) = 3
       /\ HandlerSessionId(req[r]) \in DOMAIN sessions
       /\ epoch[HandlerSessionId(req[r])] = 0
       /\ Len(Turns(HandlerSessionId(req[r]))) = 4
       /\ Turns(HandlerSessionId(req[r]))[3].rid = r

\* C19: along the turns stored in a conversation the timestamps never
\* decrease.
C19_TimestampsNonDecreasing ==
    \A s \in DOMAIN sessions :
       \A k \in 1..(Len(Turns(s)) - 1) :
          Turns(s)[k].timestamp <= Turns(s)[k + 1].timestamp

\* the requests of r's identity admitted before r reached the limiter, with a
\* timestamp of at least lo
AdmittedBefore(r, lo) ==
    {p \in Admitted(req[r].userId) : p < r /\ req[p].admittedAt >= lo}

\* C20 as stated: the window of the admission check is the closed interval
\* [now - windowDuration, now]: a request that reaches the limiter when the cap
\* is already admitted in that interval, a timestamp of exactly
\* now - windowDuration included, is turned down.
C20_BoundaryTimestampCounted ==
    \A r \in Rids :
       /\ req[r].rlAt >= 0
       /\ Cardinality(AdmittedBefore(r, req[r].rlAt - RATE_LIMIT_WINDOW_MS))
             >= RATE_LIMIT_MAX_REQUESTS
       => req[r].code = "RATE_LIMIT_EXCEEDED"

\* C20 amended: the window of the admission check is the half-open interval
\* (now - windowDuration, now]: the check counts exactly the admitted
\* timestamps strictly newer than now - windowDuration, a request is turned
\* down only when that count reaches the cap, and the record written for an
\* admitted request keeps exactly those timestamps and its own.
C20_BoundaryTimestampExpired ==
    \A r \in Rids :
       LET strict == Cardinality(AdmittedBefore(r, req[r].rlAt - RATE_LIMIT_WINDOW_MS + 1))
       IN  /\ req[r].code = "RATE_LIMIT_EXCEEDED" => strict >= RATE_LIMIT_MAX_REQUESTS
           /\ req[r].rlAt >= 0 /\ req[r].code # "RATE_LIMIT_EXCEEDED" =>
                 req[r].rlSeen = strict
           /\ req[r].admittedAt >= 0 =>
                 req[r].rlLen =
                    Cardinality(AdmittedBefore(r, req[r].admittedAt
                                                    - RATE_LIMIT_WINDOW_MS + 1)) + 1

\* C20 witness: a request was admitted although the cap was already admitted
\* in the closed interval, one of those timestamps lying exactly at
\* now - windowDuration
C20_Witness ==
    \E r \in Rids :
       /\ req[r].admittedAt >= 0
       /\ Cardinality(AdmittedBefore(r, req[r].rlAt - RATE_LIMIT_WINDOW_MS))
             >= RATE_LIMIT_MAX_REQUESTS
       /\ \E p \in AdmittedBefore(r, req[r].rlAt - RATE_LIMIT_WINDOW_MS) :
             req[p].admittedAt = req[r].rlAt - RATE_LIMIT_WINDOW_MS

\* the time of the latest admission of identity u
LastAdmission(u) ==
    CHOOSE t \in {req[p].admittedAt : p \in Admitted(u)} :
       \A p \in Admitted(u) : req[p].admittedAt <= t

\* C21: the step in which the limiter turns a request down leaves the record
\* of every identity as it was; the record of an identity holds one timestamp
\* per admitted request of the window that ends at its latest admission and
\* nothing for the requests that were turned down.
C21_RejectionRecordsNothing ==
    /\ [](\A u \in Users :
            /\ Admitted(u) = {} => u \notin DOMAIN rateLimitMap
            /\ Admitted(u) # {} =>
                  /\ u \in DOMAIN rateLimitMap
                  /\ Len(rateLimitMap[u]) =
                        Cardinality({p \in Admitted(u) :
                           req[p].admittedAt > LastAdmission(u) - RATE_LIMIT_WINDOW_MS})
                  /\ \A k \in DOMAIN rateLimitMap[u] :
                        \E p \in Admitted(u) : req[p].admittedAt = rateLimitMap[u][k])
    /\ [][\A r \in Rids :
            req[r].code # "RATE_LIMIT_EXCEEDED"
            /\ req'[r].code = "RATE_LIMIT_EXCEEDED" => rateLimitMap' = rateLimitMap]_vars

\* C21 witness: a request was turned down at a time later than every recorded
\* timestamp of its identity, whose record holds the cap and no more
C21_Witness ==
    \E r \in Rids :
       /\ req[r].code = "RATE_LIMIT_EXCEEDED"
       /\ req[r].userId \in DOMAIN rateLimitMap
       /\ Len(rateLimitMap[req[r].userId]) = RATE_LIMIT_MAX_REQUESTS
       /\ \A k \in DOMAIN rateLimitMap[req[r].userId] :
             rateLimitMap[req[r].userId][k] < req[r].rlAt

\* C22: the decision of the limiter for a request is a function of the earlier
\* admissions of its own identity and of the clock alone (turned down exactly
\* when the cap of them is strictly newer than now - window), whatever the
\* requests of other identities did in between; and a step taken by the
\* request of one identity leaves the record of every other identity as it was.
C22_AdmissionDependsOnOwnHistory ==
    /\ [](\A r \in Rids :
            req[r].rlAt >= 0 =>
               (req[r].code = "RATE_LIMIT_EXCEEDED"
                  <=> Cardinality(AdmittedBefore(r, req[r].rlAt - RATE_LIMIT_WINDOW_MS + 1))
                         >= RATE_LIMIT_MAX_REQUESTS))
    /\ [][\A r \in Rids, u \in Users :
            req'[r] # req[r] /\ req'[r].userId # u =>
               Timestamps(rateLimitMap', u) = Timestamps(rateLimitMap, u)]_vars

\* C22 witness: both identities were admitted at the same time, each up to
\* the cap of its own record
C22_Witness ==
    /\ \A u \in Users :
          /\ u \in DOMAIN rateLimitMap
          /\ Len(rateLimitMap[u]) = RATE_LIMIT_MAX_REQUESTS
    /\ \E t \in 0..now : \A u \in Users : rateLimitMap[u][1] = t

\* C23: the cap the limiter enforces is rateLimits.requestsPerMinute of the
\* loaded configuration: a request is turned down exactly when that many
\* requests of its identity are already admitted within the window.
C23_CapIsConfiguredValue ==
    \A r \in Rids :
       req[r].rlAt >= 0 =>
          (req[r].code = "RATE_LIMIT_EXCEEDED"
             <=> Cardinality(AdmittedBefore(r, req[r].rlAt - RATE_LIMIT_WINDOW_MS + 1))
                    >= requestsPerMinute)

\* C24: an identity whose recorded timestamps have all left the window
\* eventually has no entry in the limiter's map, unless it is admitted again.
C24_IdleEntryEventuallyDeleted ==
    \A u \in Users :
       (u \in DOMAIN rateLimitMap /\ Recent(rateLimitMap[u], now) = <<>>)
          ~> (u \notin DOMAIN rateLimitMap
              \/ Recent(rateLimitMap[u], now) # <<>>)

ConfiguredModels(c) ==
    UNION {c.providers[k].models : k \in DOMAIN c.providers}

\* C26: the step in which the server starts leaves exactly the models listed
\* under the provider entries of its configuration supported, each of them
\* resolving to a provider.
C26_ConfiguredModelsSupported ==
    [][server.state = "starting" /\ server'.state = "running" =>
          /\ DOMAIN registry'.modelToProvider = ConfiguredModels(server.config)
          /\ \A m \in ConfiguredModels(server.config) :
                /\ m \in DOMAIN registry'.modelToProvider
                /\ registry'.modelToProvider[m] \in DOMAIN registry'.providers]_vars

\* a configuration structure that is empty or malformed
Malformed(c) ==
    \/ c.providers = <<>>
    \/ \E k \in DOMAIN c.providers :
          ~c.providers[k].baseURL \/ c.providers[k].models = {}
    \/ ~c.rateLimits.present
    \/ c.rateLimits.requestsPerMinute = Undefined
    \/ c.rateLimits.maxMessageLength = Undefined
    \/ c.rateLimits.maxSystemPromptLength = Undefined
    \/ ~c.session.present
    \/ c.session.expirationHours = Undefined

\* C27: with an empty or malformed configuration the server never runs: once
\* startup is over it has exited with a configuration error, and no request is
\* ever taken up.
C27_MalformedConfigNeverServes ==
    Malformed(server.config) =>
        /\ server.state # "running"
        /\ server.state = "exited" => server.error # ""
        /\ \A r \in Rids : req[r].pc = "new"

\* the message texts that hold the text of an upstream error response: the
\* one built as `${providerName} API error: ${response.status} - ${errorText}`
EmbedsUpstreamBody(text) == text = "API error: status - upstream body"

\* C28: no message returned to a caller, in the error of a buffered response
\* or in the error of a unit written to a stream, holds the raw body of an
\* upstream provider's error response.
C28_NoUpstreamBodyInMessages ==
    \A r \in Rids :
        /\ ~EmbedsUpstreamBody(req[r].msg)
        /\ \A k \in DOMAIN req[r].out : ~EmbedsUpstreamBody(req[r].out[k].error)

ValidationCodes ==
    {"MISSING_PARAMETER", "INVALID_CONFIG", "INVALID_MODEL", "INVALID_TEMPERATURE",
     "SYSTEM_PROMPT_TOO_LONG", "MESSAGE_TOO_LONG"}

\* C30: on both endpoints a request that was rejected for a missing parameter,
\* an unsupported model, a temperature out of range or excess length had been
\* admitted by the limiter before: its admission put exactly one timestamp, the
\* time of its admission, into the record of its identity, where it stays once
\* per request admitted at that time until a later admission finds it outside
\* the window, and the step that rejected it left the records of the limiter as
\* they were.
C30_RejectedAfterAdmissionCostsOneSlot ==
    /\ [](\A r \in Rids :
            req[r].routed /\ req[r].code \in ValidationCodes =>
               /\ req[r].admittedAt >= 0
               /\ req[r].userId \in DOMAIN rateLimitMap
               /\ req[r].admittedAt > LastAdmission(req[r].userId) - RATE_LIMIT_WINDOW_MS
                  => Cardinality({k \in DOMAIN rateLimitMap[req[r].userId] :
                                    rateLimitMap[req[r].userId][k] = req[r].admittedAt})
                        = Cardinality({p \in Rids :
                                        /\ req[p].userId = req[r].userId
                                        /\ req[p].admittedAt = req[r].admittedAt}))
    /\ [][\A r \in Rids :
            /\ req[r].pc = "route" /\ req'[r].code \in ValidationCodes =>
                  rateLimitMap' = rateLimitMap
            /\ req[r].pc = "rateRecord" /\ req'[r].pc = "route" =>
                  Timestamps(rateLimitMap', req[r].userId) =
                     Append(Recent(Timestamps(rateLimitMap, req[r].userId), now), now)]_vars

\* C30 witness: a streaming request with an unsupported model and a buffered
\* request without agentConfig were both admitted and then rejected, each
\* holding one timestamp of the record of their identity
C30_Witness ==
    \E r \in Rids, p \in Rids :
       /\ req[r].kind = "stream" /\ req[r].code = "INVALID_MODEL"
       /\ req[p].kind = "send" /\ req[p].code = "MISSING_PARAMETER"
       /\ req[r].admittedAt < req[p].admittedAt
       /\ rateLimitMap[req[r].userId] = <<req[p].admittedAt>>

\* the errors of the stages in front of the provider call
StageCodes ==
    {"INVALID_TOKEN", "TOKEN_EXPIRED", "FORBIDDEN_SESSION", "RATE_LIMIT_EXCEEDED"}
    \cup ValidationCodes

\* C31: a request for which the provider was called carries a verified
\* identity, was admitted by the limiter, and has parameters that are complete
\* and valid; a request that ended with the error of one of the stages caused
\* no provider call; and the stages are passed in the order token
\* verification, ownership check, limiter, handler, the call being issued by
\* the handler step only.
C31_ProviderCallOnlyAfterAllStages ==
    /\ [](\A r \in Rids :
            /\ req[r].called =>
                  /\ req[r].userId \in Users
                  /\ req[r].userId = verifyToken(req[r].token)
                  /\ req[r].admittedAt >= 0
                  /\ req[r].routed
                  /\ RouteParamError(req[r]) = "ok"
                  /\ Violations(req[r]) = {}
            /\ req[r].code \in StageCodes => ~req[r].called)
    /\ [][\A r \in Rids :
            /\ req'[r].pc = "sessionAuth" /\ req[r].pc # "sessionAuth"
                  => req[r].pc = "new"
            /\ req'[r].pc = "rateLimit" /\ req[r].pc # "rateLimit"
                  => req[r].pc = "sessionAuth"
            /\ req'[r].pc = "rateRecord" /\ req[r].pc # "rateRecord"
                  => req[r].pc = "rateLimit"
            /\ req'[r].pc = "route" /\ req[r].pc # "route"
                  => req[r].pc = "rateRecord"
            /\ req'[r].called /\ ~req[r].called => req[r].pc = "route"]_vars

\* C31 witness: a foreign request was stopped by the ownership check without a
\* provider call, after the owner's request went through every stage and had
\* the provider called
C31_Witness ==
    \E r \in Rids, p \in Rids :
       /\ req[r].called /\ req[r].code = "OK"
       /\ req[p].code = "FORBIDDEN_SESSION" /\ ~req[p].called
       /\ req[p].userId # req[r].userId

\* C32: the step in which a buffered exchange returns from its provider, after
\* its conversation was removed by the sweep or by deleteSession while it was
\* awaiting, ends the exchange with an error and leaves no turn of it in any
\* conversation, and it does not put the conversation back into the store.
C32_RemovedDuringAwaitFailsCleanly ==
    [][\A r \in Rids :
          /\ req[r].pc = "awaiting" /\ req'[r].pc = "done"
          /\ epoch[HandlerSessionId(req[r])] > req[r].ep
          => /\ req'[r].status = 500
             /\ \A s \in DOMAIN sessions' :
                   \A k \in DOMAIN sessions'[s].messages :
                      sessions'[s].messages[k].rid # r
             /\ HandlerSessionId(req[r]) \in DOMAIN sessions'
                   => HandlerSessionId(req[r]) \in DOMAIN sessions]_vars

\* C33: every turn stored in a conversation is of an exchange whose request
\* was authenticated as the owner the conversation has now.
C33_TurnsAreTheOwners ==
    \A s \in DOMAIN sessions :
       \A k \in DOMAIN sessions[s].messages :
          req[sessions[s].messages[k].rid].userId = sessions[s].userId

\* C34: the step in which streamMessage ends, having called onChunk with a
\* unit with done = true, a messageId and no error, leaves the user turn and
\* the assistant turn of the exchange as the last two turns of its
\* conversation.
C34_FinalUnitImpliesStored ==
    [][\A r \in Rids :
          /\ req[r].pc = "streaming" /\ req'[r].pc = "done"
          /\ \E k \in DOMAIN req'[r].calls :
                /\ req'[r].calls[k].done
                /\ req'[r].calls[k].messageId
                /\ req'[r].calls[k].error = ""
          => LET s == HandlerSessionId(req[r])
             IN  /\ s \in DOMAIN sessions'
                 /\ Len(sessions'[s].messages) >= 2
                 /\ LET m == sessions'[s].messages
                    IN  /\ m[Len(m) - 1].role = "user" /\ m[Len(m) - 1].rid = r
                        /\ m[Len(m)].role = "assistant" /\ m[Len(m)].rid = r]_vars

\* the turns stored under s, none if s is not stored
StoredTurns(s) == IF s \in DOMAIN sessions THEN sessions[s].messages ELSE <<>>

\* C35: the step of sendMessage or streamMessage that calls the provider sends
\* one system turn if and only if the system prompt is not empty, in front of
\* the turns the conversation holds at that moment in their stored order, in
\* front of one user turn of the exchange with its message; nothing else.
C35_ContextIsPromptHistoryMessage ==
    [][\A r \in Rids :
          req'[r].called /\ ~req[r].called =>
             LET c == req'[r].ctx
                 p == IF req[r].cfg.promptLen > 0 THEN 1 ELSE 0
                 h == StoredTurns(HandlerSessionId(req[r]))
             IN  /\ Len(c) = p + Len(h) + 1
                 /\ p = 1 => /\ c[1].role = "system"
                             /\ c[1].content = <<"p">>
                 /\ SubSeq(c, p + 1, p + Len(h)) = h
                 /\ \A k \in (p + 1)..(p + Len(h)) : c[k].role # "system"
                 /\ c[Len(c)].role = "user"
                 /\ c[Len(c)].rid = r
                 /\ c[Len(c)].content = <<"m">>]_vars

\* C35 witness: a streaming exchange with a system prompt sent the prompt, the
\* two turns a buffered exchange had stored, and its own message
C35_Witness ==
    \E r \in Rids :
       /\ req[r].kind = "stream"
       /\ req[r].cfg.promptLen > 0
       /\ Len(req[r].ctx) = 4
       /\ req[r].ctx[1].role = "system"
       /\ req[req[r].ctx[2].rid].kind = "send"
       /\ req[r].ctx[3].role = "assistant"
       /\ req[r].ctx[4].rid = r

\* C36: the turns of every stored conversation are (user, assistant) pairs:
\* their number is even, the odd positions hold user turns and the even ones
\* assistant turns, and no system turn is stored.
C36_TurnsAreUserAssistantPairs ==
    \A s \in DOMAIN sessions :
       /\ Len(sessions[s].messages) % 2 = 0
       /\ \A k \in DOMAIN sessions[s].messages :
             /\ sessions[s].messages[k].role # "system"
             /\ sessions[s].messages[k].role =
                   IF k % 2 = 1 THEN "user" ELSE "assistant"

\* C36 witness: a conversation holds the two pairs of a buffered and of a
\* streaming exchange, one of which sent a system prompt upstream
C36_Witness ==
    \E s \in DOMAIN sessions :
       /\ Len(sessions[s].messages) = 4
       /\ req[sessions[s].messages[1].rid].kind # req[sessions[s].messages[3].rid].kind
       /\ \E k \in DOMAIN sessions[s].messages :
             req[sessions[s].messages[k].rid].ctx[1].role = "system"

\* C37: the step in which a request is answered 401 or 403 leaves the recorded
\* timestamps of every identity as they were, and such a request never reached
\* the limiter.
C37_AuthRejectionCostsNoSlot ==
    /\ [](\A r \in Rids :
            req[r].status \in {401, 403} =>
               /\ req[r].rlAt < 0
               /\ req[r].admittedAt < 0)
    /\ [][\A r \in Rids :
            req'[r].status \in {401, 403} /\ req[r].status \notin {401, 403} =>
               rateLimitMap' = rateLimitMap]_vars

\* C37 witness: a request on another user's conversation was answered 403 and
\* its identity has no recorded timestamp, the owner having one
C37_Witness ==
    \E r \in Rids :
       /\ req[r].status = 403
       /\ req[r].userId \in Users
       /\ req[r].userId \notin DOMAIN rateLimitMap
       /\ DOMAIN rateLimitMap # {}

\* the exchanges that created their conversation and then failed upstream,
\* the conversation not having been removed since
FailedOnNew ==
    {r \in Rids : /\ req[r].created
                  /\ req[r].upstream \in UpstreamFailures \cup StreamFailures
                  /\ epoch[HandlerSessionId(req[r])] = req[r].ep}

\* C38 as stated: after an exchange on a conversationId that was not stored
\* passed validation and failed upstream, no conversation is registered under
\* that id.
C38_FailedExchangeLeavesNoConversation ==
    \A r \in FailedOnNew : HandlerSessionId(req[r]) \notin DOMAIN sessions

\* C38 amended: such an exchange leaves the conversation it created before the
\* provider call registered under that id, owned by the identity of the
\* request and without any turn of the exchange; the step that created it
\* added that one empty conversation and changed no other, and the step in
\* which the exchange failed left the store as it was.
C38_FailedExchangeLeavesEmptyConversation ==
    /\ [](\A r \in FailedOnNew :
            LET s == HandlerSessionId(req[r])
            IN  /\ s \in DOMAIN sessions
                /\ sessions[s].userId = req[r].userId
                /\ \A k \in DOMAIN sessions[s].messages :
                      sessions[s].messages[k].rid # r)
    /\ [][\A r \in Rids :
            /\ req'[r].created /\ ~req[r].created =>
                  LET s == HandlerSessionId(req[r])
                  IN  /\ DOMAIN sessions' = DOMAIN sessions \cup {s}
                      /\ Cardinality(DOMAIN sessions') = Cardinality(DOMAIN sessions) + 1
                      /\ sessions'[s].messages = <<>>
                      /\ \A t \in DOMAIN sessions : sessions'[t] = sessions[t]
            /\ req[r].upstream = "-"
               /\ req'[r].upstream \in UpstreamFailures \cup StreamFailures
                  => sessions' = sessions]_vars

\* C38 witness: a streaming exchange created its conversation and failed
\* upstream; the conversation is stored without turns, and the request of
\* another user on that id, dispatched after it, was answered 403
C38_Witness ==
    \E r \in FailedOnNew, p \in Rids :
       /\ req[r].kind = "stream"
       /\ sessions[HandlerSessionId(req[r])].messages = <<>>
       /\ p > r
       /\ req[p].code = "FORBIDDEN_SESSION"

\* C39: the recorded timestamp list of every identity holds at most
\* RATE_LIMIT_MAX_REQUESTS entries.
C39_RecordNeverLongerThanCap ==
    \A u \in DOMAIN rateLimitMap : Len(rateLimitMap[u]) <= RATE_LIMIT_MAX_REQUESTS

\* C39 witness: an identity was admitted and then turned down while over the
\* limit, and the sweep has since deleted its record
C39_Witness ==
    \E r \in Rids, p \in Rids :
       /\ req[r].admittedAt >= 0
       /\ req[p].userId = req[r].userId
       /\ req[p].code = "RATE_LIMIT_EXCEEDED"
       /\ req[r].userId \notin DOMAIN rateLimitMap

\* C40: once loadConfig has failed validation, the ConfigService holds no
\* configuration: its getters fail with CONFIG_MISSING.
C40_FailedLoadHoldsNoConfig ==
    server.error # "" => getFullConfigThrows

====
